---- MODULE Spec2Model ----
(***************************************************************************)
(* Tool-calling orchestration of AkshareProject: the tool executor        *)
(* (execute_single_tool), the single-agent loop (chat_with_context) with  *)
(* its persisted conversation, and the CLI loop that drives it.           *)
(*                                                                         *)
(* The Python sources carry their user-visible texts in Chinese; string   *)
(* literals are limited to ASCII here, so each text is given by an        *)
(* English rendering of the same literal, with the same interpolations.   *)
(***************************************************************************)
EXTENDS Integers, Sequences, FiniteSets, TLC

(***************************************************************************)
(* Python values.  A value is a record tagged by its type:                *)
(*   none | bool (b) | int (n) | str (s) | dict (items: <<key, value>>)   *)
(*   list (elems) | tuple (telems) | object (cls, attrs: <<key, value>>)  *)
(* A dict keeps insertion order, as Python's does.  An object is an       *)
(* instance of a class (cls) with attributes; it is not a dict.           *)
(***************************************************************************)
PyNone == [ty |-> "none"]

PyBool(b) == [ty |-> "bool", b |-> b]

PyInt(n) == [ty |-> "int", n |-> n]

PyStr(s) == [ty |-> "str", s |-> s]

PyDict(items) == [ty |-> "dict", items |-> items]

PyList(elems) == [ty |-> "list", elems |-> elems]

PyTuple(elems) == [ty |-> "tuple", telems |-> elems]

PyObj(cls, attrs) == [ty |-> "object", cls |-> cls, attrs |-> attrs]

\* The key/value pairs of a dict or the attributes of an object.
Items(v) == IF v.ty = "dict" THEN v.items ELSE IF v.ty = "object" THEN v.attrs ELSE <<>>

\* key in d (dict), hasattr(o, key) (object).
Has(v, key) == \E i \in 1..Len(Items(v)) : Items(v)[i][1] = key

\* d[key] / o.key; only used where Has(v, key).
Get(v, key) == Items(v)[CHOOSE i \in 1..Len(Items(v)) : Items(v)[i][1] = key][2]

\* m.get(key, default).
GetOr(v, key, default) == IF Has(v, key) THEN Get(v, key) ELSE default

\* bool(v): Python truthiness.
Truthy(v) ==
    CASE v.ty = "none" -> FALSE
      [] v.ty = "bool" -> v.b
      [] v.ty = "int" -> v.n # 0
      [] v.ty = "str" -> v.s # ""
      [] v.ty = "dict" -> Len(v.items) > 0
      [] v.ty = "list" -> Len(v.elems) > 0
      [] v.ty = "tuple" -> Len(v.telems) > 0
      [] OTHER -> TRUE

\* Decimal digits of the small integers the model uses.
Digits(n) ==
    CASE n = 0 -> "0" [] n = 1 -> "1" [] n = 2 -> "2" [] n = 3 -> "3"
      [] n = 4 -> "4" [] n = 5 -> "5" [] n = 6 -> "6" [] n = 7 -> "7"
      [] n = 8 -> "8" [] OTHER -> "9"

\* json.dumps can serialize v: None, bool, int, str, and dict / list / tuple of
\* such; an arbitrary object (a DataFrame, a pydantic model) is not.
RECURSIVE Serializable(_)
Serializable(v) ==
    CASE v.ty = "dict" -> \A i \in 1..Len(v.items) : Serializable(v.items[i][2])
      [] v.ty = "list" -> \A i \in 1..Len(v.elems) : Serializable(v.elems[i])
      [] v.ty = "tuple" -> \A i \in 1..Len(v.telems) : Serializable(v.telems[i])
      [] v.ty = "object" -> FALSE
      [] OTHER -> TRUE

\* json.dumps(v, ensure_ascii=False) for a serializable v, with Python's
\* default separators ", " and ": ".  A tuple is written as an array.  The
\* strings of the model hold no character that JSON escapes.
RECURSIVE json_dumps(_)
RECURSIVE JoinJson(_, _)
RECURSIVE JoinJsonItems(_, _)
JoinJson(elems, i) ==
    IF i > Len(elems) THEN ""
    ELSE (IF i > 1 THEN ", " ELSE "") \o json_dumps(elems[i]) \o JoinJson(elems, i + 1)

JoinJsonItems(items, i) ==
    IF i > Len(items) THEN ""
    ELSE (IF i > 1 THEN ", " ELSE "") \o "\"" \o items[i][1] \o "\": "
         \o json_dumps(items[i][2]) \o JoinJsonItems(items, i + 1)

json_dumps(v) ==
    CASE v.ty = "none" -> "null"
      [] v.ty = "bool" -> (IF v.b THEN "true" ELSE "false")
      [] v.ty = "int" -> Digits(v.n)
      [] v.ty = "str" -> "\"" \o v.s \o "\""
      [] v.ty = "dict" -> "{" \o JoinJsonItems(v.items, 1) \o "}"
      [] v.ty = "list" -> "[" \o JoinJson(v.elems, 1) \o "]"
      [] v.ty = "tuple" -> "[" \o JoinJson(v.telems, 1) \o "]"
      [] OTHER -> "<not serializable>"

\* repr(v) and str(v): Python's own text of a value, which is not JSON: None,
\* True, single-quoted strings, parenthesised tuples.
RECURSIVE py_repr(_)
RECURSIVE JoinRepr(_, _)
RECURSIVE JoinReprItems(_, _)
JoinRepr(elems, i) ==
    IF i > Len(elems) THEN ""
    ELSE (IF i > 1 THEN ", " ELSE "") \o py_repr(elems[i]) \o JoinRepr(elems, i + 1)

JoinReprItems(items, i) ==
    IF i > Len(items) THEN ""
    ELSE (IF i > 1 THEN ", " ELSE "") \o "'" \o items[i][1] \o "': "
         \o py_repr(items[i][2]) \o JoinReprItems(items, i + 1)

py_repr(v) ==
    CASE v.ty = "none" -> "None"
      [] v.ty = "bool" -> (IF v.b THEN "True" ELSE "False")
      [] v.ty = "int" -> Digits(v.n)
      [] v.ty = "str" -> "'" \o v.s \o "'"
      [] v.ty = "dict" -> "{" \o JoinReprItems(v.items, 1) \o "}"
      [] v.ty = "list" -> "[" \o JoinRepr(v.elems, 1) \o "]"
      [] v.ty = "tuple" -> "(" \o JoinRepr(v.telems, 1) \o ")"
      [] OTHER -> "<" \o v.cls \o " object>"

py_str(v) == IF v.ty = "str" THEN v.s ELSE py_repr(v)

(***************************************************************************)
(* Tool registry (akshare_tools.AVAILABLE_TOOLS): each registered name    *)
(* with the parameters its function declares and those without a default. *)
(***************************************************************************)
AVAILABLE_TOOLS ==
    [get_stock_zh_a_spot_data |->
        [params |-> {"symbol", "period", "start_date", "end_date"}, required |-> {}],
     visualize_stock_data_trend |->
        [params |-> {"symbol"}, required |-> {"symbol"}],
     query_macro_data |->
        [params |-> {"indicator"}, required |-> {"indicator"}]]

\* The keys of a dict value.
Keys(d) == {d.items[i][1] : i \in 1..Len(d.items)}

\* tool_function(**tool_args): the message of the TypeError Python raises when
\* the arguments cannot be bound to the function's parameters, "" when they bind.
BindError(tool_name, tool_args) ==
    LET sig == AVAILABLE_TOOLS[tool_name] IN
    IF tool_args.ty # "dict" THEN "argument after ** must be a mapping"
    ELSE IF ~(Keys(tool_args) \subseteq sig.params) THEN "got an unexpected keyword argument"
    ELSE IF ~(sig.required \subseteq Keys(tool_args)) THEN "missing a required argument"
    ELSE ""

\* What execute_single_tool hands back: a returned string, or an exception
\* that leaves it; called tells whether the tool function was invoked.
Returned(text, called) == [raised |-> FALSE, value |-> text, exc |-> "", called |-> called]

Raised(exc, called) == [raised |-> TRUE, value |-> "", exc |-> exc, called |-> called]

\* json.dumps({"error": error_msg}, ensure_ascii=False)
ErrorPayload(error_msg) == json_dumps(PyDict(<<(<<"error", PyStr(error_msg)>>)>>))

\* The message without the name of the tool.
NotFoundMsg_unnamed(tool_name) == "execution failed: tool not found"

NotFoundMsg(tool_name) == "execution failed: tool '" \o tool_name \o "' not found"

ParamErrorMsg(tool_name, e) ==
    "parameter error: tool '" \o tool_name \o "' does not accept the supplied arguments: " \o e

RuntimeErrorMsg(tool_name, e) ==
    "runtime error: tool '" \o tool_name \o "' raised: " \o e

\* An executor without the `except Exception` clause: the exception leaves it.
OnException_uncaught(tool_name, e, called) == Raised("Exception", called)

\* The handler of `except TypeError` and the handler of `except Exception`.
OnTypeError(tool_name, e, called) == Returned(ErrorPayload(ParamErrorMsg(tool_name, e)), called)

OnException(tool_name, e, called) == Returned(ErrorPayload(RuntimeErrorMsg(tool_name, e)), called)

\* The part of the try block after the tool returned result.
OnResult(tool_name, result) ==
    IF result.ty \in {"dict", "list", "int", "bool"}
    THEN IF Serializable(result)
         THEN Returned(json_dumps(result), TRUE)
         ELSE OnTypeError(tool_name, "Object is not JSON serializable", TRUE)
    ELSE Returned(py_str(result), TRUE)

\* The classes `except Exception` catches, among those the model raises
\* (KeyboardInterrupt and SystemExit derive from BaseException only).
ExceptionClasses == {"TypeError", "ValueError", "KeyError", "AttributeError", "RuntimeError"}

(***************************************************************************)
(* execute_single_tool(tool_name, tool_args).  tool_name is the string    *)
(* the call names; outcome is what the tool function does once its        *)
(* arguments are bound: [kind |-> "return", value |-> v] or               *)
(* [kind |-> "raise", exc |-> class, msg |-> text].                       *)
(***************************************************************************)
execute_single_tool(tool_name, tool_args, outcome) ==
    IF tool_name \notin DOMAIN AVAILABLE_TOOLS
    THEN Returned(ErrorPayload(NotFoundMsg(tool_name)), FALSE)
    ELSE IF BindError(tool_name, tool_args) # ""
    THEN OnTypeError(tool_name, BindError(tool_name, tool_args), FALSE)
    ELSE IF outcome.kind = "return" THEN OnResult(tool_name, outcome.value)
    ELSE IF outcome.exc = "TypeError" THEN OnTypeError(tool_name, outcome.msg, TRUE)
    ELSE IF outcome.exc \in ExceptionClasses THEN OnException(tool_name, outcome.msg, TRUE)
    ELSE Raised(outcome.exc, TRUE)

(***************************************************************************)
(* Bounds of the model.                                                    *)
(***************************************************************************)
\* Turns (calls of chat_with_context) over the life of the database.
MaxTurns == 2

\* A turn starts only on a history of at most this many records.
MaxHistory == 2

\* Tool-call entries in one model response.
MaxBatch == 2


\* Seconds the clock of CURRENT_TIMESTAMP advances.
MaxClock == 1

\* Calls of ContextStore.save that succeed under one task id.
MaxSaves == 2

(***************************************************************************)
(* Program constants and texts.                                            *)
(***************************************************************************)
MAX_ITERATIONS == 5

\* Tool-call entries over all the responses of one turn: enough for a turn
\* of MAX_ITERATIONS passes, one of them with a full batch.
MaxToolCalls == MAX_ITERATIONS + MaxBatch - 1

SYSTEM_PROMPT == "You are a financial data analysis agent."

FALLBACK_NOTICE == "Task completed, but I have nothing more to add."

LIMIT_NOTICE == "Reached the maximum number of rounds, stopping."

\* str.strip() on the texts the model's responses carry.
Strip(s) ==
    CASE s = "  CPI rose 0.2%  " -> "CPI rose 0.2%"
      [] s = "   " -> ""
      [] OTHER -> s

\* {'role': role, 'content': content}
Msg(role, content) == PyDict(<<(<<"role", PyStr(role)>>), (<<"content", PyStr(content)>>)>>)

(***************************************************************************)
(* State.                                                                  *)
(***************************************************************************)
VARIABLES
    db,          \* table conversation: rows [role, content, ts] in rowid order
    clock,       \* the second CURRENT_TIMESTAMP reads
    handles,     \* connections to the conversation database that are open
    pc,          \* where the process is: prompt, loop, exec_tools, done,
                 \* exhausted, crashed, exited
    messages,    \* chat_with_context's message list
    iteration,   \* chat_with_context's iteration counter
    pending,     \* entries of tool_calls_serializable still to execute
    modelCalls,  \* calls of ollama.chat made by the turn
    execLog,     \* calls of execute_single_tool made by the turn, with results
    console,     \* what the turn printed: final reply, limit notice
    retval,      \* what chat_with_context returned
    exc,         \* the exception that left chat_with_context, "" if none
    base,        \* number of records in db when the turn started
    toolOutcome, \* what the registered tool does when it is called
    turns,       \* turns started so far
    xcall,       \* executor harness: the call under test
    xresult,     \* executor harness: what execute_single_tool handed back
    xdone,       \* executor harness: the call was made
    store,       \* table task_context: rows [task_id, context_json] in rowid order
    conn,        \* ContextStore.conn: closed, open
    saves,       \* per task id, the contexts saved under it, oldest first
    loaded,      \* what the last call of ContextStore.save or .load handed back
    ctx,         \* run(): the in-memory task context
    ppc,         \* where run() is: idle, saved, crashed, finished
    ran,         \* agents whose run() was entered, in order
    pcalls,      \* calls of ollama.chat made by the agents
    pexc         \* the exception that left run() or an agent, "" if none

vars == <<db, clock, handles, pc, messages, iteration, pending, modelCalls, execLog,
          console, retval, exc, base, toolOutcome, turns, xcall, xresult, xdone,
          store, conn, saves, loaded, ctx, ppc, ran, pcalls, pexc>>

turnVars == <<messages, iteration, pending, modelCalls, execLog, console, retval, exc, base>>

harnessVars == <<xcall, xresult, xdone>>

storeVars == <<store, conn, saves, loaded>>

pipelineVars == <<ctx, ppc, ran, pcalls, pexc>>

\* retval before chat_with_context has returned.
NotReturned == [ty |-> "unset"]

(***************************************************************************)
(* The persisted conversation.                                             *)
(***************************************************************************)
\* sqlite3.connect(DB_NAME) and conn.close() on the number of open handles.
sqlite3_connect(h) == h + 1

\* A function that returns without closing its connection.
conn_close_skipped(h) == h

conn_close(h) == h - 1

\* One function of the history: connect, one statement, close.
ConnectPerOperation(h) == conn_close(sqlite3_connect(h))

\* An INSERT OR REPLACE that keeps a single row.
save_message_replacing(rows, role, content, now) ==
    <<[role |-> role, content |-> content, ts |-> now]>>

\* save_message(role, content): INSERT one row; the timestamp column takes
\* its default, CURRENT_TIMESTAMP.
save_message(rows, role, content, now) ==
    Append(rows, [role |-> role, content |-> content, ts |-> now])

\* The orders in which SELECT ... ORDER BY timestamp ASC may return the rows:
\* rows of different timestamps by timestamp, rows of one timestamp in an
\* order SQL leaves open.
TimestampOrders(rows) ==
    {p \in [1..Len(rows) -> 1..Len(rows)] :
        /\ \A i, j \in 1..Len(rows) : i # j => p[i] # p[j]
        /\ \A i, j \in 1..Len(rows) : i < j => rows[p[i]].ts <= rows[p[j]].ts}

\* load_context(): the message lists it may return.
load_context(rows) ==
    {[i \in 1..Len(rows) |-> Msg(rows[p[i]].role, rows[p[i]].content)] :
        p \in TimestampOrders(rows)}

(***************************************************************************)
(* What the model runtime may answer.                                      *)
(***************************************************************************)
Ret(v) == [kind |-> "return", value |-> v]

Raise(e, msg) == [kind |-> "raise", exc |-> e, msg |-> msg]

\* No tool function runs (unregistered name, arguments that do not bind).
NoOutcome == [kind |-> "none"]

\* json.dumps(summary) of query_macro_data, and the error object the tools
\* return from their own except clause.
SummaryValue ==
    PyDict(<<(<<"indicator", PyStr("CPI")>>), (<<"formatted_output", PyStr("CPI 100.2")>>)>>)

ToolErrorValue == PyDict(<<(<<"error", PyStr("AkShare call failed")>>)>>)

JsonSummary == json_dumps(SummaryValue)

JsonToolError == json_dumps(ToolErrorValue)

\* What a tool function may do once called: the registered tools return JSON
\* text (a summary, or their own error object); the executor is written for
\* any callable, so the other return types and exceptions are drawn too.
ToolOutcomes ==
    {Ret(PyStr(JsonSummary)), Ret(PyStr(JsonToolError)), Ret(PyStr("chart shown")),
     Ret(PyDict(<<(<<"success", PyBool(TRUE)>>)>>)),
     Ret(PyList(<<PyInt(1), PyInt(2)>>)),
     Ret(PyInt(7)), Ret(PyBool(TRUE)), Ret(PyNone),
     Ret(PyTuple(<<PyInt(1), PyInt(2)>>)),
     Ret(PyDict(<<(<<"frame", PyObj("DataFrame", <<>>)>>)>>)),
     Ret(PyObj("DataFrame", <<>>)),
     Raise("TypeError", "unsupported operand type"),
     Raise("ValueError", "no data for symbol"),
     Raise("KeyError", "close")}

\* The outcomes drawn for a run of the loop.
LoopOutcomes == {Ret(PyStr(JsonSummary)), Ret(PyNone)}

FunctionDict(name, args) == PyDict(<<(<<"name", PyStr(name)>>), (<<"arguments", args>>)>>)

\* A tool call as a plain mapping, and as an object of class cls.
ToolCallDict(name, args) == PyDict(<<(<<"function", FunctionDict(name, args)>>)>>)

ToolCallObj(cls, name, args) ==
    PyObj(cls, <<(<<"function",
                    PyObj("Function", <<(<<"name", PyStr(name)>>), (<<"arguments", args>>)>>)>>)>>)

ArgsCPI == PyDict(<<(<<"indicator", PyStr("CPI")>>)>>)

ArgsSymbol == PyDict(<<(<<"symbol", PyStr("600519")>>)>>)

ArgsExtra == PyDict(<<(<<"symbol", PyStr("600519")>>), (<<"data_table_name", PyStr("t")>>)>>)

ArgsEmpty == PyDict(<<>>)

\* Entries of a response's tool_calls drawn inside the loop: a well-formed
\* mapping, a pydantic object naming an unregistered tool, and a mapping
\* without the function field.
LoopToolCalls ==
    {ToolCallDict("query_macro_data", ArgsCPI),
     ToolCallObj("ToolCall", "search_stock", ArgsEmpty),
     PyDict(<<(<<"type", PyStr("function")>>)>>)}

Batches == UNION {[1..n -> LoopToolCalls] : n \in 1..MaxBatch}

\* response['message'] carrying tool calls: a mapping (older client) or a
\* Message object (pydantic client).
ToolResponse(batch) ==
    LET fields == <<(<<"role", PyStr("assistant")>>), (<<"content", PyStr("")>>),
                    (<<"tool_calls", PyList(batch)>>)>>
    IN IF batch[1].ty = "dict" THEN PyDict(fields) ELSE PyObj("Message", fields)

\* response['message'] without tool calls.
FinalResponses ==
    {PyObj("Message", <<(<<"role", PyStr("assistant")>>), (<<"content", PyStr("  CPI rose 0.2%  ")>>),
                        (<<"tool_calls", PyNone>>)>>),
     PyDict(<<(<<"role", PyStr("assistant")>>), (<<"content", PyStr("   ")>>),
              (<<"tool_calls", PyList(<<>>)>>)>>),
     PyDict(<<(<<"role", PyStr("assistant")>>)>>),
     PyObj("Message", <<(<<"role", PyStr("assistant")>>), (<<"content", PyNone>>),
                        (<<"tool_calls", PyNone>>)>>)}

Responses == FinalResponses \cup {ToolResponse(b) : b \in Batches}

UserInputs == {"latest CPI?"}

(***************************************************************************)
(* Normalization of the raw tool calls (chat_with_context, lines 282-302). *)
(***************************************************************************)
\* hasattr(tool, method): pydantic v2 models have model_dump and dict,
\* pydantic v1 models have dict only, other objects neither.
HasMethod(tool, method) ==
    \/ tool.cls = "ToolCall" /\ method \in {"model_dump", "dict"}
    \/ tool.cls = "ToolCallV1" /\ method = "dict"

\* tool.model_dump() / tool.dict(): the object and the objects it holds,
\* as plain mappings.
RECURSIVE model_dump(_)
model_dump(v) ==
    IF v.ty = "object"
    THEN PyDict([i \in 1..Len(v.attrs) |-> <<v.attrs[i][1], model_dump(v.attrs[i][2])>>])
    ELSE v

\* The manual extraction reads tool.function.name and tool.function.arguments.
HasFunctionAttrs(tool) ==
    /\ Has(tool, "function")
    /\ Has(Get(tool, "function"), "name")
    /\ Has(Get(tool, "function"), "arguments")

\* One pass of the normalization loop fails (AttributeError).
NormalizeRaises(tool) ==
    /\ tool.ty # "dict"
    /\ ~HasMethod(tool, "model_dump")
    /\ ~HasMethod(tool, "dict")
    /\ ~HasFunctionAttrs(tool)

\* A loop that appends every entry as it came.
Normalize_raw(tool) == tool

\* The entry one pass appends to tool_calls_serializable.
Normalize(tool) ==
    IF tool.ty = "dict" THEN tool
    ELSE IF HasMethod(tool, "model_dump") THEN model_dump(tool)
    ELSE IF HasMethod(tool, "dict") THEN model_dump(tool)
    ELSE PyDict(<<(<<"function",
                     FunctionDict(Get(Get(tool, "function"), "name").s,
                                  Get(Get(tool, "function"), "arguments"))>>),
                  (<<"type", PyStr("function")>>)>>)

\* tool['function']['name'] and tool['function']['arguments'] can be read.
Subscriptable(tool) ==
    /\ tool.ty = "dict"
    /\ Has(tool, "function")
    /\ Get(tool, "function").ty = "dict"
    /\ Has(Get(tool, "function"), "name")
    /\ Has(Get(tool, "function"), "arguments")

\* The content taken as it came, without strip().
FinalContent_unstripped(content) ==
    IF content.s = "" THEN FALLBACK_NOTICE ELSE content.s

\* final_content: the stripped content, or the fixed notice when that is empty.
FinalContent(content) ==
    IF Strip(content.s) = "" THEN FALLBACK_NOTICE ELSE Strip(content.s)

\* A turn that persists the limit notice as its answer.
PersistOnExhaustion_notice(rows, now) == save_message(rows, "assistant", LIMIT_NOTICE, now)

\* What the turn persists when the iterations are used up: nothing.
PersistOnExhaustion(rows, now) == rows

\* The result appended under the user role.
ToolMessage_asUser(tool_output) == Msg("user", tool_output)

\* The tool-role message of one result.
ToolMessage(tool_output) == Msg("tool", tool_output)

(***************************************************************************)
(* Initial state: the process has run init_db() on a fresh database and    *)
(* waits at the prompt.                                                    *)
(***************************************************************************)
NoCall == [name |-> "", args |-> ArgsEmpty, outcome |-> NoOutcome]

\* Task ids (uuid4 strings) and the contexts the store is given.
TaskIds == {"t1", "t2"}

NotSaved == [ty |-> "unset"]

NotLoaded == [op |-> "", task_id |-> "", raised |-> FALSE, exc |-> "", value |-> NotSaved]

\* No ContextStore exists yet; the file agent_pipeline.db is new.
StoreInit ==
    /\ store = <<>>
    /\ conn = "closed"
    /\ saves = [t \in TaskIds |-> <<>>]
    /\ loaded = NotLoaded

\* run() has not been called.
PipelineInit ==
    /\ ctx = PyNone
    /\ ppc = "idle"
    /\ ran = <<>>
    /\ pcalls = <<>>
    /\ pexc = ""

NoResult == Returned("", FALSE)

TurnInit ==
    /\ messages = <<>>
    /\ iteration = 0
    /\ pending = <<>>
    /\ modelCalls = 0
    /\ execLog = <<>>
    /\ console = <<>>
    /\ retval = NotReturned
    /\ exc = ""
    /\ base = 0

Init ==
    /\ db = <<>>
    /\ clock = 0
    /\ handles = 0
    /\ pc = "prompt"
    /\ turns = 0
    /\ toolOutcome \in LoopOutcomes
    /\ TurnInit
    /\ xcall = NoCall
    /\ xresult = NoResult
    /\ xdone = FALSE
    /\ StoreInit
    /\ PipelineInit

\* interactive_chat is at input().
AtPrompt == pc \in {"prompt", "done", "exhausted"}

\* The model follows the program further only on a short history.
ShortHistory == Len(db) <= MaxHistory

(***************************************************************************)
(* chat_with_context(user_input), lines 240-257: build the message list,   *)
(* persist the user message.                                               *)
(***************************************************************************)
StartTurn(user_input) ==
    /\ AtPrompt
    /\ turns < MaxTurns
    /\ ShortHistory
    /\ \E history \in load_context(db) :
          messages' = <<Msg("system", SYSTEM_PROMPT)>> \o history \o <<Msg("user", user_input)>>
    /\ db' = save_message(db, "user", user_input, clock)
    /\ handles' = ConnectPerOperation(ConnectPerOperation(handles))
    /\ base' = Len(db)
    /\ iteration' = 0
    /\ pending' = <<>>
    /\ modelCalls' = 0
    /\ execLog' = <<>>
    /\ console' = <<>>
    /\ retval' = NotReturned
    /\ exc' = ""
    /\ turns' = turns + 1
    /\ pc' = "loop"
    /\ UNCHANGED <<clock, toolOutcome, harnessVars, storeVars, pipelineVars>>

(***************************************************************************)
(* One pass of the while loop up to the tool executions, lines 259-308,    *)
(* for a response that carries tool calls.                                 *)
(***************************************************************************)
ModelRequestsTools(response) ==
    /\ pc = "loop"
    /\ iteration < MAX_ITERATIONS
    /\ Truthy(GetOr(response, "tool_calls", PyNone))
    /\ Len(execLog) + Len(Get(response, "tool_calls").elems) <= MaxToolCalls
    /\ modelCalls' = modelCalls + 1
    /\ messages' = Append(messages, response)
    /\ LET raw == Get(response, "tool_calls").elems
           norm == [i \in 1..Len(raw) |-> Normalize(raw[i])]
       IN IF \E i \in 1..Len(raw) : NormalizeRaises(raw[i])
          THEN /\ pc' = "crashed"
               /\ exc' = "AttributeError"
               /\ UNCHANGED <<db, handles, pending>>
          ELSE IF ~Serializable(PyList(norm))
          THEN /\ pc' = "crashed"
               /\ exc' = "TypeError"
               /\ UNCHANGED <<db, handles, pending>>
          ELSE /\ db' = save_message(db, "assistant", json_dumps(PyList(norm)), clock)
               /\ handles' = ConnectPerOperation(handles)
               /\ pending' = norm
               /\ pc' = "exec_tools"
               /\ UNCHANGED exc
    /\ UNCHANGED <<clock, iteration, execLog, console, retval, base, toolOutcome, turns,
                   harnessVars, storeVars, pipelineVars>>

(***************************************************************************)
(* One pass of the while loop for a response without tool calls,           *)
(* lines 259-275 and 339-354.                                              *)
(***************************************************************************)
ModelAnswers(response) ==
    /\ pc = "loop"
    /\ iteration < MAX_ITERATIONS
    /\ ~Truthy(GetOr(response, "tool_calls", PyNone))
    /\ modelCalls' = modelCalls + 1
    /\ messages' = Append(messages, response)
    /\ LET content == GetOr(response, "content", PyStr(""))
       IN IF content.ty # "str"
          THEN /\ pc' = "crashed"
               /\ exc' = "AttributeError"
               /\ UNCHANGED <<db, handles, console, retval>>
          ELSE /\ console' = Append(console, FinalContent(content))
               /\ db' = save_message(db, "assistant", FinalContent(content), clock)
               /\ handles' = ConnectPerOperation(handles)
               /\ retval' = PyNone
               /\ pc' = "done"
               /\ UNCHANGED exc
    /\ UNCHANGED <<clock, iteration, pending, execLog, base, toolOutcome, turns, harnessVars, storeVars, pipelineVars>>

(***************************************************************************)
(* One pass of the for loop over tool_calls_serializable, lines 311-333,   *)
(* and, after the last entry, the end of the while pass, lines 336-337.    *)
(***************************************************************************)
ExecTool ==
    /\ pc = "exec_tools"
    /\ pending # <<>>
    /\ LET tool == Head(pending) IN
       IF ~Subscriptable(tool)
       THEN /\ pc' = "crashed"
            /\ exc' = "KeyError"
            /\ UNCHANGED <<db, handles, messages, iteration, pending, execLog>>
       ELSE LET function_name == Get(Get(tool, "function"), "name").s
                function_args == Get(Get(tool, "function"), "arguments")
                r == execute_single_tool(function_name, function_args, toolOutcome)
                tool_output == IF r.raised THEN "Tool execution error: " \o r.exc ELSE r.value
            IN /\ IF r.raised /\ r.exc \notin ExceptionClasses
                  THEN /\ pc' = "crashed"
                       /\ exc' = r.exc
                       /\ UNCHANGED <<db, handles, messages, iteration, pending>>
                  ELSE /\ messages' = Append(messages, ToolMessage(tool_output))
                       /\ db' = save_message(db, "tool", tool_output, clock)
                       /\ handles' = ConnectPerOperation(handles)
                       /\ pending' = Tail(pending)
                       /\ iteration' = IF Tail(pending) = <<>> THEN iteration + 1 ELSE iteration
                       /\ pc' = IF Tail(pending) = <<>> THEN "loop" ELSE "exec_tools"
                       /\ UNCHANGED exc
               /\ execLog' = Append(execLog, [name |-> function_name, args |-> function_args,
                                              called |-> r.called, output |-> tool_output])
    /\ UNCHANGED <<clock, modelCalls, console, retval, base, toolOutcome, turns, harnessVars, storeVars, pipelineVars>>

(***************************************************************************)
(* The while condition fails, lines 259 and 356-357: the limit notice.     *)
(***************************************************************************)
LimitReached ==
    /\ pc = "loop"
    /\ iteration >= MAX_ITERATIONS
    /\ console' = Append(console, LIMIT_NOTICE)
    /\ db' = PersistOnExhaustion(db, clock)
    /\ retval' = PyNone
    /\ pc' = "exhausted"
    /\ UNCHANGED <<clock, handles, messages, iteration, pending, modelCalls, execLog, exc, base,
                   toolOutcome, turns, harnessVars, storeVars, pipelineVars>>

TurnReset ==
    /\ messages' = <<>>
    /\ iteration' = 0
    /\ pending' = <<>>
    /\ modelCalls' = 0
    /\ execLog' = <<>>
    /\ console' = <<>>
    /\ retval' = NotReturned
    /\ exc' = ""
    /\ base' = 0

(***************************************************************************)
(* interactive_chat, lines 458-464: the clear command.                     *)
(***************************************************************************)
Clear ==
    /\ AtPrompt
    /\ db # <<>>
    /\ db' = <<>>
    /\ handles' = ConnectPerOperation(handles)
    /\ pc' = "prompt"
    /\ TurnReset
    /\ UNCHANGED <<clock, toolOutcome, turns, harnessVars, storeVars, pipelineVars>>

(***************************************************************************)
(* interactive_chat, lines 452-456: exit or end of input; the main block   *)
(* then reads the history once more (line 476) and the process ends.       *)
(***************************************************************************)
Exit ==
    /\ AtPrompt
    /\ ShortHistory
    /\ handles' = ConnectPerOperation(handles)
    /\ pc' = "exited"
    /\ TurnReset
    /\ UNCHANGED <<db, clock, toolOutcome, turns, harnessVars, storeVars, pipelineVars>>

(***************************************************************************)
(* The program is started again on the same database, lines 472-474 and    *)
(* 447: init_db keeps the existing table.                                  *)
(***************************************************************************)
Launch ==
    /\ pc \in {"crashed", "exited"}
    /\ ShortHistory
    /\ handles' = ConnectPerOperation(0)
    /\ pc' = "prompt"
    /\ TurnReset
    /\ UNCHANGED <<db, clock, toolOutcome, turns, harnessVars, storeVars, pipelineVars>>

\* A second passes.
Tick ==
    /\ AtPrompt
    /\ ShortHistory
    /\ db # <<>>
    /\ clock < MaxClock
    /\ clock' = clock + 1
    /\ UNCHANGED <<db, handles, pc, turnVars, toolOutcome, turns, harnessVars, storeVars, pipelineVars>>

Next ==
    \/ \E user_input \in UserInputs : StartTurn(user_input)
    \/ \E response \in Responses : ModelRequestsTools(response)
    \/ \E response \in Responses : ModelAnswers(response)
    \/ ExecTool
    \/ LimitReached
    \/ Clear
    \/ Exit
    \/ Launch
    \/ Tick

Spec == Init /\ [][Next]_vars

(***************************************************************************)
(* Harness for execute_single_tool as a function: the initial state draws  *)
(* one call (name, arguments, what the tool does), the step makes it.      *)
(***************************************************************************)
ExecNames ==
    {"get_stock_zh_a_spot_data", "visualize_stock_data_trend", "query_macro_data",
     "search_stock", ""}

ExecArgs == {ArgsCPI, ArgsSymbol, ArgsExtra, ArgsEmpty, PyNone, PyStr("600519")}

ExecCalls == [name : ExecNames, args : ExecArgs, outcome : ToolOutcomes]

InitExec ==
    /\ db = <<>>
    /\ clock = 0
    /\ handles = 0
    /\ pc = "prompt"
    /\ turns = 0
    /\ toolOutcome = NoOutcome
    /\ TurnInit
    /\ xcall \in ExecCalls
    /\ xresult = NoResult
    /\ xdone = FALSE
    /\ StoreInit
    /\ PipelineInit

RunExecutor ==
    /\ ~xdone
    /\ xresult' = execute_single_tool(xcall.name, xcall.args, xcall.outcome)
    /\ xdone' = TRUE
    /\ UNCHANGED <<db, clock, handles, pc, turnVars, toolOutcome, turns, xcall, storeVars, pipelineVars>>

NextExec == RunExecutor

SpecExec == InitExec /\ [][NextExec]_vars

(***************************************************************************)
(* ContextStore (utils/context_store.py): one row per task id in table     *)
(* task_context, the context as JSON text.  The texts of the model hold no *)
(* character that json.dumps escapes.                                      *)
(***************************************************************************)
CtxNew ==
    PyDict(<<(<<"user_input", PyStr("latest CPI?")>>), (<<"messages", PyList(<<>>)>>),
             (<<"final_report", PyNone>>)>>)

CtxDone ==
    PyDict(<<(<<"user_input", PyStr("latest CPI?")>>),
             (<<"messages", PyList(<<Msg("tool", "chart shown")>>)>>),
             (<<"final_report", PyStr("CPI rose 0.2%")>>)>>)

\* A context json.dumps accepts but JSON cannot represent as it is (a tuple),
\* and one json.dumps rejects (a Message object of the client).
CtxTuple == PyDict(<<(<<"values", PyTuple(<<PyInt(1), PyInt(2)>>)>>)>>)

CtxObject ==
    PyDict(<<(<<"messages",
               PyList(<<PyObj("Message", <<(<<"role", PyStr("assistant")>>)>>)>>)>>)>>)

StoreContexts == {CtxNew, CtxDone, CtxTuple, CtxObject}

\* The documents the stored texts denote: json.loads builds dicts and lists.
JsonDocs ==
    {CtxNew, CtxDone, PyDict(<<(<<"values", PyList(<<PyInt(1), PyInt(2)>>)>>)>>)}

\* A load that hands back the stored text unparsed.
json_loads_unparsed(text) == PyStr(text)

\* json.loads(text)
json_loads(text) == CHOOSE d \in JsonDocs : json_dumps(d) = text

\* A plain INSERT without the ON CONFLICT clause.
Upsert_insertOnly(rows, task_id, text) ==
    Append(rows, [task_id |-> task_id, context_json |-> text])

\* INSERT INTO task_context ... ON CONFLICT(task_id) DO UPDATE SET context_json
Upsert(rows, task_id, text) ==
    IF \E i \in 1..Len(rows) : rows[i].task_id = task_id
    THEN [i \in 1..Len(rows) |->
            IF rows[i].task_id = task_id
            THEN [task_id |-> task_id, context_json |-> text]
            ELSE rows[i]]
    ELSE Append(rows, [task_id |-> task_id, context_json |-> text])

\* A SELECT without the WHERE clause: the first row of the table.
FetchOne_anyRow(rows, task_id) ==
    IF rows = <<>> THEN PyNone ELSE PyStr(rows[1].context_json)

\* SELECT context_json FROM task_context WHERE task_id=? ... fetchone()
FetchOne(rows, task_id) ==
    LET hits == SelectSeq(rows, LAMBDA r : r.task_id = task_id)
    IN IF hits = <<>> THEN PyNone ELSE PyStr(hits[1].context_json)

StoreResult(op, task_id, value) ==
    [op |-> op, task_id |-> task_id, raised |-> FALSE, exc |-> "", value |-> value]

StoreRaised(op, task_id, e) ==
    [op |-> op, task_id |-> task_id, raised |-> TRUE, exc |-> e, value |-> NotSaved]

\* ContextStore(): connect, CREATE TABLE IF NOT EXISTS.
StoreOpen ==
    /\ conn = "closed"
    /\ conn' = "open"
    /\ loaded' = NotLoaded
    /\ UNCHANGED <<store, saves>>

\* ContextStore.save(task_id, ctx)
StoreSave(task_id, c) ==
    /\ conn = "open"
    /\ Len(saves[task_id]) < MaxSaves
    /\ IF ~Serializable(c)
       THEN /\ loaded' = StoreRaised("save", task_id, "TypeError")
            /\ UNCHANGED <<store, saves>>
       ELSE /\ store' = Upsert(store, task_id, json_dumps(c))
            /\ saves' = [saves EXCEPT ![task_id] = Append(@, c)]
            /\ loaded' = StoreResult("save", task_id, PyNone)
    /\ UNCHANGED conn

\* ContextStore.load(task_id)
StoreLoad(task_id) ==
    /\ conn = "open"
    /\ LET row == FetchOne(store, task_id)
       IN loaded' = IF row = PyNone
                    THEN StoreRaised("load", task_id, "TypeError")
                    ELSE StoreResult("load", task_id, json_loads(row.s))
    /\ UNCHANGED <<store, conn, saves>>

\* The process that holds the store ends; the file stays.
StoreClose ==
    /\ conn = "open"
    /\ conn' = "closed"
    /\ loaded' = NotLoaded
    /\ UNCHANGED <<store, saves>>

MainIdle == <<db, clock, handles, pc, turnVars, toolOutcome, turns, harnessVars>>

InitStore ==
    /\ db = <<>>
    /\ clock = 0
    /\ handles = 0
    /\ pc = "prompt"
    /\ turns = 0
    /\ toolOutcome = NoOutcome
    /\ TurnInit
    /\ xcall = NoCall
    /\ xresult = NoResult
    /\ xdone = FALSE
    /\ StoreInit
    /\ PipelineInit

NextStore ==
    \/ StoreOpen /\ UNCHANGED <<MainIdle, pipelineVars>>
    \/ \E t \in TaskIds, c \in StoreContexts : StoreSave(t, c) /\ UNCHANGED <<MainIdle, pipelineVars>>
    \/ \E t \in TaskIds : StoreLoad(t) /\ UNCHANGED <<MainIdle, pipelineVars>>
    \/ StoreClose /\ UNCHANGED <<MainIdle, pipelineVars>>

SpecStore == InitStore /\ [][NextStore]_vars

(***************************************************************************)
(* The storage operations of the two programs side by side: turns of the   *)
(* chat that the model answers at once, clear, exit and restart on the     *)
(* conversation table, and a ContextStore used on one task id.             *)
(***************************************************************************)
StorageTask == "t1"

StorageContexts == {CtxNew, CtxDone}

InitStorage ==
    /\ db = <<>>
    /\ clock = 0
    /\ handles = 0
    /\ pc = "prompt"
    /\ turns = 0
    /\ toolOutcome = NoOutcome
    /\ TurnInit
    /\ xcall = NoCall
    /\ xresult = NoResult
    /\ xdone = FALSE
    /\ StoreInit
    /\ PipelineInit

NextStorage ==
    \/ \E user_input \in UserInputs : StartTurn(user_input)
    \/ \E response \in FinalResponses : ModelAnswers(response)
    \/ Clear
    \/ Exit
    \/ Launch
    \/ StoreOpen /\ UNCHANGED <<MainIdle, pipelineVars>>
    \/ \E c \in StorageContexts : StoreSave(StorageTask, c) /\ UNCHANGED <<MainIdle, pipelineVars>>
    \/ StoreLoad(StorageTask) /\ UNCHANGED <<MainIdle, pipelineVars>>
    \/ StoreClose /\ UNCHANGED <<MainIdle, pipelineVars>>

SpecStorage == InitStorage /\ [][NextStorage]_vars

(***************************************************************************)
(* The agent pipeline (multi-Agent.py): run() and the run methods of the   *)
(* three agents (the classes of lines 229-316; the DataFetchAgent of line  *)
(* 79 is replaced by the one of line 229).                                 *)
(***************************************************************************)
AgentClasses == <<"DataFetchAgent", "DataProcessAgent", "ReportAgent">>

\* Parameters of Agent.__init__ after self, and arguments run() passes.
AgentInitParams == 2

RunInitArgs == 3

\* Attributes of an agent instance: those set by __init__ and the methods
\* of the class.
AgentAttrs == {"name", "store", "logger", "_bind_logger", "run", "persist"}

AgentPrompt(cls) ==
    CASE cls = "DataFetchAgent" -> "You are the data fetch agent."
      [] cls = "DataProcessAgent" -> "You are the data processing agent."
      [] OTHER -> "You are the report agent."

PipelineInputs == {"latest CPI?", "plot 600519", "GDP trend"}

\* A ctx whose messages start with the user's input as a user message.
NewCtx_seeded(task_id, user_input) ==
    PyDict(<<(<<"task_id", PyStr(task_id)>>), (<<"user_input", PyStr(user_input)>>),
             (<<"model", PyStr("qwen2.5:14b")>>),
             (<<"messages", PyList(<<Msg("user", user_input)>>)>>),
             (<<"final_report", PyNone>>)>>)

\* The ctx dict run() builds.
NewCtx(task_id, user_input) ==
    PyDict(<<(<<"task_id", PyStr(task_id)>>), (<<"user_input", PyStr(user_input)>>),
             (<<"model", PyStr("qwen2.5:14b")>>), (<<"messages", PyList(<<>>)>>),
             (<<"final_report", PyNone>>)>>)

\* resp["message"] of the agents' model calls.
PipelineResponses ==
    {ToolResponse(<<ToolCallDict("query_macro_data", ArgsCPI)>>),
     PyObj("Message", <<(<<"role", PyStr("assistant")>>), (<<"content", PyStr("CPI rose 0.2%")>>),
                        (<<"tool_calls", PyNone>>)>>)}

\* d[key] = v on an existing key.
SetItem(d, key, v) ==
    PyDict([i \in 1..Len(d.items) |-> IF d.items[i][1] = key THEN <<key, v>> ELSE d.items[i]])

\* The message list of the agent's model call, and whether tools are offered.
AgentMessages(cls, c) ==
    IF cls = "DataFetchAgent"
    THEN <<Msg("system", AgentPrompt(cls)), Msg("user", Get(c, "user_input").s)>>
    ELSE <<Msg("system", AgentPrompt(cls))>> \o Get(c, "messages").elems

OffersTools(cls) == cls # "ReportAgent"

\* The tool messages of one response, in the order of its tool calls.
AgentToolMessages(msg, outcome) ==
    IF ~Truthy(GetOr(msg, "tool_calls", PyNone)) THEN <<>>
    ELSE LET calls == Get(msg, "tool_calls").elems
         IN [j \in 1..Len(calls) |->
               Msg("tool", execute_single_tool(Get(Get(calls[j], "function"), "name").s,
                                               Get(Get(calls[j], "function"), "arguments"),
                                               outcome).value)]

\* ctx after the body of run(): the report stored, or the response and the
\* tool messages appended.
AgentCtx(cls, c, msg, outcome) ==
    IF cls = "ReportAgent"
    THEN SetItem(c, "final_report", Get(msg, "content"))
    ELSE SetItem(c, "messages",
                 PyList(Get(c, "messages").elems \o <<msg>> \o AgentToolMessages(msg, outcome)))

AgentReturned(c, call) == [raised |-> FALSE, exc |-> "", ctx |-> c, calls |-> <<call>>, saved |-> TRUE]

AgentRaised(e, c, calls) == [raised |-> TRUE, exc |-> e, ctx |-> c, calls |-> calls, saved |-> FALSE]

\* cls.run(ctx) on an agent instance, with msg the model's response.
AgentRun(cls, c, msg, outcome) ==
    LET call == [agent |-> cls, tools |-> OffersTools(cls), messages |-> AgentMessages(cls, c)]
    IN IF "bind_logger" \notin AgentAttrs THEN AgentRaised("AttributeError", c, <<>>)
       ELSE IF "system_prompt" \notin AgentAttrs THEN AgentRaised("AttributeError", c, <<>>)
       ELSE IF /\ cls # "ReportAgent"
               /\ Truthy(GetOr(msg, "tool_calls", PyNone))
               /\ \E j \in 1..Len(Get(msg, "tool_calls").elems) :
                     ~HasFunctionAttrs(Get(msg, "tool_calls").elems[j])
       THEN AgentRaised("KeyError",
                        SetItem(c, "messages", PyList(Get(c, "messages").elems \o <<msg>>)),
                        <<call>>)
       ELSE IF ~Serializable(AgentCtx(cls, c, msg, outcome))
       THEN AgentRaised("TypeError", AgentCtx(cls, c, msg, outcome), <<call>>)
       ELSE AgentReturned(AgentCtx(cls, c, msg, outcome), call)

\* for agent in agents: agent.run(ctx), from the k-th agent on.
RECURSIVE RunLoop(_, _, _, _)
RunLoop(k, c, responses, outcome) ==
    IF k > Len(AgentClasses)
    THEN [raised |-> FALSE, exc |-> "", ctx |-> c, calls |-> <<>>, ran |-> <<>>, saved |-> <<>>]
    ELSE LET r == AgentRun(AgentClasses[k], c, responses[k], outcome)
             rest == RunLoop(k + 1, r.ctx, responses, outcome)
         IN IF r.raised
            THEN [raised |-> TRUE, exc |-> r.exc, ctx |-> r.ctx, calls |-> r.calls,
                  ran |-> <<AgentClasses[k]>>, saved |-> <<>>]
            ELSE [raised |-> rest.raised, exc |-> rest.exc, ctx |-> rest.ctx,
                  calls |-> r.calls \o rest.calls, ran |-> <<AgentClasses[k]>> \o rest.ran,
                  saved |-> <<r.ctx>> \o rest.saved]

TaskIdOf(c) == Get(c, "task_id").s

\* run(), lines 321-332: the store, a fresh task id, the context, its first save.
RunBegin(user_input, task_id) ==
    /\ ppc = "idle"
    /\ \A i \in 1..Len(store) : store[i].task_id # task_id
    /\ conn' = "open"
    /\ ctx' = NewCtx(task_id, user_input)
    /\ store' = Upsert(store, task_id, json_dumps(NewCtx(task_id, user_input)))
    /\ saves' = [saves EXCEPT ![task_id] = Append(@, NewCtx(task_id, user_input))]
    /\ loaded' = StoreResult("save", task_id, PyNone)
    /\ ppc' = "saved"
    /\ UNCHANGED <<ran, pcalls, pexc>>

\* run(), lines 334-344: the three agents are built and run in order.
RunAgents ==
    /\ ppc = "saved"
    /\ IF RunInitArgs # AgentInitParams
       THEN /\ ppc' = "crashed"
            /\ pexc' = "TypeError"
            /\ UNCHANGED <<ctx, ran, pcalls, storeVars>>
       ELSE \E responses \in [1..3 -> PipelineResponses] :
              LET r == RunLoop(1, ctx, responses, toolOutcome)
                  last == IF r.saved = <<>> THEN ctx ELSE r.saved[Len(r.saved)]
              IN /\ ctx' = r.ctx
                 /\ ran' = r.ran
                 /\ pcalls' = r.calls
                 /\ pexc' = r.exc
                 /\ ppc' = IF r.raised THEN "crashed" ELSE "finished"
                 /\ store' = Upsert(store, TaskIdOf(ctx), json_dumps(last))
                 /\ saves' = [saves EXCEPT ![TaskIdOf(ctx)] = @ \o r.saved]
                 /\ loaded' = StoreResult("save", TaskIdOf(ctx), PyNone)
                 /\ UNCHANGED conn

\* One agent, built as Agent.__init__ declares (name, store), is run on the
\* context.
AgentCall(cls) ==
    /\ ppc = "saved"
    /\ \E msg \in PipelineResponses :
          LET r == AgentRun(cls, ctx, msg, toolOutcome)
          IN /\ ctx' = r.ctx
             /\ ran' = Append(ran, cls)
             /\ pcalls' = pcalls \o r.calls
             /\ pexc' = r.exc
             /\ ppc' = IF r.raised THEN "crashed" ELSE "saved"
             /\ IF r.saved
                THEN /\ store' = Upsert(store, TaskIdOf(ctx), json_dumps(r.ctx))
                     /\ saves' = [saves EXCEPT ![TaskIdOf(ctx)] = Append(@, r.ctx)]
                     /\ loaded' = StoreResult("save", TaskIdOf(ctx), PyNone)
                ELSE UNCHANGED <<store, saves, loaded>>
             /\ UNCHANGED conn

\* The process that ran the pipeline has ended; the store file stays.
RunReset ==
    /\ ppc \in {"crashed", "finished"}
    /\ ctx' = PyNone
    /\ ppc' = "idle"
    /\ ran' = <<>>
    /\ pcalls' = <<>>
    /\ pexc' = ""
    /\ conn' = "closed"
    /\ loaded' = NotLoaded
    /\ UNCHANGED <<store, saves>>

InitPipeline ==
    /\ db = <<>>
    /\ clock = 0
    /\ handles = 0
    /\ pc = "prompt"
    /\ turns = 0
    /\ toolOutcome = Ret(PyStr(JsonSummary))
    /\ TurnInit
    /\ xcall = NoCall
    /\ xresult = NoResult
    /\ xdone = FALSE
    /\ StoreInit
    /\ PipelineInit

NextPipeline ==
    \/ \E user_input \in PipelineInputs, task_id \in TaskIds :
          RunBegin(user_input, task_id) /\ UNCHANGED MainIdle
    \/ RunAgents /\ UNCHANGED MainIdle
    \/ \E k \in 1..Len(AgentClasses) : AgentCall(AgentClasses[k]) /\ UNCHANGED MainIdle
    \/ RunReset /\ UNCHANGED MainIdle

SpecPipeline == InitPipeline /\ [][NextPipeline]_vars

(***************************************************************************)
(* Vocabulary of the properties.                                           *)
(***************************************************************************)
\* The message is a model response carrying tool calls.
IsToolResponse(m) == Truthy(GetOr(m, "tool_calls", PyNone))

Entries(m) == Get(m, "tool_calls").elems

\* The entry names a tool and its arguments.
WellFormed(entry) == HasFunctionAttrs(entry)

CallOf(entry) ==
    [name |-> Get(Get(entry, "function"), "name").s,
     args |-> model_dump(Get(Get(entry, "function"), "arguments"))]

\* Positions of the model's responses of this turn in the message list.
ResponseIdx ==
    {i \in (base + 3)..Len(messages) : Get(messages[i], "role") = PyStr("assistant")}

\* Entries carried by the responses at positions 1..i.
RECURSIVE EntriesUpTo(_)
EntriesUpTo(i) ==
    IF i = 0 THEN 0
    ELSE EntriesUpTo(i - 1)
         + (IF IsToolResponse(messages[i]) THEN Len(Entries(messages[i])) ELSE 0)

\* The well-formed invocations of the responses at positions 1..i, in order.
RECURSIVE InvocationsUpTo(_)
InvocationsUpTo(i) ==
    IF i = 0 THEN <<>>
    ELSE LET here == IF IsToolResponse(messages[i])
                     THEN SelectSeq(Entries(messages[i]), WellFormed)
                     ELSE <<>>
         IN InvocationsUpTo(i - 1) \o [k \in 1..Len(here) |-> CallOf(here[k])]

Executed == [k \in 1..Len(execLog) |-> [name |-> execLog[k].name, args |-> execLog[k].args]]

\* The turn is over: returned, or left by an exception.
TurnEnded == pc \in {"done", "exhausted", "crashed"}

(***************************************************************************)
(* C1.  One turn makes at most 5 model calls, and a turn in which every    *)
(* response carries tool calls makes 5 calls, prints the limit notice and  *)
(* ends.  Stated as written; the loop is left by an exception when an      *)
(* entry is malformed (C9), so it does not hold.                           *)
(***************************************************************************)
C1_Original ==
    /\ modelCalls <= 5
    /\ (TurnEnded /\ ResponseIdx # {} /\ \A i \in ResponseIdx : IsToolResponse(messages[i]))
          => /\ modelCalls = 5
             /\ pc = "exhausted"
             /\ console = <<"Reached the maximum number of rounds, stopping.">>

(***************************************************************************)
(* C2.  Tool calls on rounds 1..k-1 and none on round k: the turn makes    *)
(* exactly k model calls and returns the round-k answer text.  Stated as   *)
(* written it fails: chat_with_context returns None.                       *)
(***************************************************************************)
\* The text the turn shows for a response without tool calls.
C2_AnswerText(response) ==
    LET c == GetOr(response, "content", PyStr("")).s IN
    IF c = "  CPI rose 0.2%  " THEN "CPI rose 0.2%"
    ELSE IF c \in {"", "   "} THEN "Task completed, but I have nothing more to add."
    ELSE c

C3_ToolMessagesFollow ==
    pc = "loop" =>
        \A i \in 1..Len(messages) :
            IsToolResponse(messages[i]) =>
                LET entries == Entries(messages[i])
                    n == Len(entries)
                    k0 == EntriesUpTo(i - 1)
                IN /\ i + n <= Len(messages)
                   /\ k0 + n <= Len(execLog)
                   /\ \A j \in 1..n :
                        /\ WellFormed(entries[j])
                        /\ CallOf(entries[j]) = Executed[k0 + j]
                        /\ messages[i + j] = Msg("tool", execLog[k0 + j].output)
                   /\ i + n < Len(messages)
                        => Get(messages[i + n + 1], "role") # PyStr("tool")

C3_Witness ==
    /\ pc = "loop"
    /\ iteration = 2
    /\ \E i \in ResponseIdx :
          /\ IsToolResponse(messages[i])
          /\ Len(Entries(messages[i])) = 2
          /\ i + 2 < Len(messages)
          /\ messages[i + 1] # messages[i + 2]

(***************************************************************************)
(* C4.  Every tool message the loop appends and persists is valid JSON     *)
(* text, whatever the tool returned.  Stated as written; str(result) of a  *)
(* result that is neither text nor dict, list, number or bool is not JSON. *)
(***************************************************************************)
C4_ErrorTexts ==
    {NotFoundMsg(n) : n \in {"search_stock", ""}}
    \cup {ParamErrorMsg(n, e) : n \in DOMAIN AVAILABLE_TOOLS,
                                e \in {"argument after ** must be a mapping",
                                       "got an unexpected keyword argument",
                                       "missing a required argument",
                                       "unsupported operand type",
                                       "Object is not JSON serializable"}}
    \cup {RuntimeErrorMsg(n, e) : n \in DOMAIN AVAILABLE_TOOLS,
                                  e \in {"no data for symbol", "close"}}

\* The JSON documents of the model, and their texts.
C4_JsonValues ==
    {SummaryValue, ToolErrorValue, PyDict(<<(<<"success", PyBool(TRUE)>>)>>),
     PyList(<<PyInt(1), PyInt(2)>>), PyInt(7), PyBool(TRUE), PyNone}
    \cup {PyDict(<<(<<"error", PyStr(m)>>)>>) : m \in C4_ErrorTexts}

C4_JsonTexts == {json_dumps(v) : v \in C4_JsonValues}

C4_Original ==
    /\ \A i \in 1..Len(messages) :
          Get(messages[i], "role") = PyStr("tool")
              => Get(messages[i], "content").s \in C4_JsonTexts
    /\ \A i \in 1..Len(db) : db[i].role = "tool" => db[i].content \in C4_JsonTexts

(***************************************************************************)
(* C5.  execute_single_tool never raises: for every name, every argument   *)
(* value and every failure of the tool it returns a string.                *)
(***************************************************************************)
C5_ExecutorNeverRaises ==
    xdone => /\ ~xresult.raised
             /\ xresult.exc = ""
             /\ xresult.value # ""

C5_Witness ==
    /\ xdone
    /\ xcall.name = "query_macro_data"
    /\ xcall.args = ArgsCPI
    /\ xcall.outcome.kind = "raise"
    /\ xcall.outcome.exc = "KeyError"
    /\ xresult.called
    /\ ~xresult.raised

(***************************************************************************)
(* C6.  For a name that is not registered, execute_single_tool returns the *)
(* JSON object whose only field is error, with the not-found message that  *)
(* names the tool; no tool is called and nothing is raised.                *)
(***************************************************************************)
C6_NotFoundPayload ==
    (xdone /\ xcall.name \notin {"get_stock_zh_a_spot_data", "visualize_stock_data_trend",
                                 "query_macro_data"})
        => /\ ~xresult.raised
           /\ ~xresult.called
           /\ xresult.value =
                "{\"error\": \"execution failed: tool '" \o xcall.name \o "' not found\"}"

C6_Witness ==
    /\ xdone
    /\ xcall.name = "search_stock"
    /\ xcall.outcome.kind = "return"
    /\ ~xresult.called

(***************************************************************************)
(* C7.  For a registered tool, arguments that do not bind give the         *)
(* parameter-error payload and every failure raised inside the tool gives  *)
(* the runtime-error payload, whatever its type.  Stated as written; a     *)
(* TypeError raised inside the tool is reported as a parameter error.      *)
(***************************************************************************)
C7_Original ==
    (xdone /\ xcall.name \in DOMAIN AVAILABLE_TOOLS) =>
        /\ BindError(xcall.name, xcall.args) # ""
              => xresult.value =
                    "{\"error\": \"parameter error: tool '" \o xcall.name
                    \o "' does not accept the supplied arguments: "
                    \o BindError(xcall.name, xcall.args) \o "\"}"
        /\ (BindError(xcall.name, xcall.args) = "" /\ xcall.outcome.kind = "raise")
              => xresult.value =
                    "{\"error\": \"runtime error: tool '" \o xcall.name
                    \o "' raised: " \o xcall.outcome.msg \o "\"}"

(***************************************************************************)
(* C8.  The tool calls of a response are executed one at a time in the     *)
(* order returned, all of them, also after one of them failed, before the  *)
(* model is called again.  Stated as written; the entries that follow a    *)
(* malformed entry (C9) are never executed.                                *)
(***************************************************************************)
C8_Original ==
    pc # "exec_tools" => Executed = InvocationsUpTo(Len(messages))

(***************************************************************************)
(* C9.  A tool-call entry that cannot be normalized to name and arguments  *)
(* is answered with a tool-role error message and the turn continues; no   *)
(* exception leaves the loop.  Stated as written; the subscripts of lines  *)
(* 313-314 are outside the try block.                                      *)
(***************************************************************************)
C9_Original ==
    \A i \in ResponseIdx :
        (IsToolResponse(messages[i])
         /\ \E j \in 1..Len(Entries(messages[i])) : ~WellFormed(Entries(messages[i])[j]))
            => /\ pc # "crashed"
               /\ pc = "loop" => EntriesUpTo(i) - EntriesUpTo(i - 1)
                                   <= Cardinality({k \in (i + 1)..Len(messages) :
                                         Get(messages[k], "role") = PyStr("tool")})

(***************************************************************************)
(* C10.  A turn that ends by iteration exhaustion persists nothing after   *)
(* its last tool result: its records end with a tool record and hold no    *)
(* final-answer assistant record.                                          *)
(***************************************************************************)
C10_NothingPersistedOnExhaustion ==
    pc = "exhausted" =>
        /\ Len(db) > base + 1
        /\ db[base + 1].role = "user"
        /\ db[Len(db)].role = "tool"
        /\ db[Len(db)].content = execLog[Len(execLog)].output
        /\ \A i \in (base + 2)..Len(db) :
              /\ db[i].role \in {"assistant", "tool"}
              /\ db[i].role = "assistant" => (i < Len(db) /\ db[i + 1].role = "tool")
              /\ db[i].content \notin {"Reached the maximum number of rounds, stopping.",
                                       "Task completed, but I have nothing more to add."}
        /\ Cardinality({i \in (base + 2)..Len(db) : db[i].role = "assistant"}) = 5
        /\ Cardinality({i \in (base + 2)..Len(db) : db[i].role = "tool"}) = Len(execLog)

C10_Witness ==
    /\ pc = "exhausted"
    /\ modelCalls = 5
    /\ Len(execLog) = 6
    /\ console = <<"Reached the maximum number of rounds, stopping.">>

(***************************************************************************)
(* C11.  No error of the taxonomy (tool not found, argument mismatch, tool *)
(* failure, malformed invocation, iteration exhaustion) is fatal: after    *)
(* any of them chat_with_context returns without an exception and the CLI  *)
(* loop takes the next input.  Stated as written; a malformed invocation   *)
(* (C9) ends the process.                                                  *)
(***************************************************************************)
C11_ErrorPayloads ==
    {"{\"error\": \"execution failed: tool 'search_stock' not found\"}"}

C11_TaxonomyError ==
    \/ \E k \in 1..Len(execLog) : execLog[k].output \in C11_ErrorPayloads
    \/ \E i \in ResponseIdx :
          /\ IsToolResponse(messages[i])
          /\ \E j \in 1..Len(Entries(messages[i])) : ~WellFormed(Entries(messages[i])[j])
    \/ iteration >= 5

C11_Original ==
    (TurnEnded /\ C11_TaxonomyError) => (pc \in {"done", "exhausted"} /\ exc = "" /\ AtPrompt)

(***************************************************************************)
(* C12.  load_context returns the persisted messages in the order in which *)
(* save_message was called, each once, whatever their timestamps.  Stated  *)
(* as written; the query orders by timestamp, which has a resolution of    *)
(* one second, so records of the same second may come back in any order.   *)
(***************************************************************************)
C12_InsertionOrder == [i \in 1..Len(db) |-> Msg(db[i].role, db[i].content)]

C12_Original ==
    (AtPrompt /\ ShortHistory) => load_context(db) = {C12_InsertionOrder}

(***************************************************************************)
(* C13.  During a turn the persisted conversation only grows: every record *)
(* stays, unchanged, at its position.  Only the clear command removes      *)
(* records, all of them, and it runs outside a turn.                       *)
(***************************************************************************)
C13_AppendOnly ==
    [][\/ /\ Len(db') >= Len(db)
          /\ SubSeq(db', 1, Len(db)) = db
       \/ /\ AtPrompt
          /\ db' = <<>>
          /\ pc' = "prompt"]_vars

C13_Witness ==
    /\ pc = "exec_tools"
    /\ base = 2
    /\ Len(db) = base + 3
    /\ db[base + 3].role = "tool"

(***************************************************************************)
(* C20.  A response without tool calls makes the loop persist exactly one  *)
(* assistant record with the final text: the content, or the fallback      *)
(* notice when the content is missing, null, empty or blank.  Stated as    *)
(* written; a null content raises AttributeError at .strip().              *)
(***************************************************************************)
C20_FinalText(response) ==
    IF GetOr(response, "content", PyNone).ty # "str"
    THEN "Task completed, but I have nothing more to add."
    ELSE C2_AnswerText(response)

C20_Original ==
    (Len(messages) \in ResponseIdx /\ ~IsToolResponse(messages[Len(messages)])) =>
        /\ Len(db) = base + 1 + iteration + Len(execLog) + 1
        /\ db[Len(db)].role = "assistant"
        /\ db[Len(db)].content = C20_FinalText(messages[Len(messages)])

(***************************************************************************)
(* C14.  ContextStore: load(task_id) after save(task_id, ctx) returns a    *)
(* value structurally equal to ctx, for every JSON-representable ctx; and  *)
(* after any sequence of saves load returns the context saved last under   *)
(* that task id.                                                           *)
(***************************************************************************)
\* JSON represents v as it is: null, booleans, numbers, strings, and
\* objects and arrays of such.
RECURSIVE C14_JsonRepresentable(_)
C14_JsonRepresentable(v) ==
    CASE v.ty = "dict" -> \A i \in 1..Len(v.items) : C14_JsonRepresentable(v.items[i][2])
      [] v.ty = "list" -> \A i \in 1..Len(v.elems) : C14_JsonRepresentable(v.elems[i])
      [] v.ty \in {"none", "bool", "int", "str"} -> TRUE
      [] OTHER -> FALSE

C14_RoundTrip ==
    (loaded.op = "load" /\ saves[loaded.task_id] # <<>>) =>
        LET last == saves[loaded.task_id][Len(saves[loaded.task_id])]
        IN C14_JsonRepresentable(last) => (~loaded.raised /\ loaded.value = last)

C14_Witness ==
    /\ loaded.op = "load"
    /\ loaded.task_id = "t1"
    /\ saves["t1"] = <<CtxNew, CtxDone>>
    /\ saves["t2"] = <<CtxNew>>
    /\ loaded.value = CtxDone

(***************************************************************************)
(* C15.  ContextStore: after any sequence of saves the table holds exactly *)
(* one record per task id saved; a save under an existing task id replaces *)
(* the content of that record and leaves the other records as they were.   *)
(***************************************************************************)
C15_OneRecordPerTask ==
    /\ \A t \in TaskIds :
          LET rows == {i \in 1..Len(store) : store[i].task_id = t}
          IN IF saves[t] = <<>>
             THEN rows = {}
             ELSE /\ Cardinality(rows) = 1
                  /\ \A i \in rows :
                        store[i].context_json = json_dumps(saves[t][Len(saves[t])])
    /\ Len(store) = Cardinality({t \in TaskIds : saves[t] # <<>>})

C15_Witness ==
    /\ loaded.op = "save"
    /\ loaded.task_id = "t1"
    /\ ~loaded.raised
    /\ saves["t1"] = <<CtxNew, CtxDone>>
    /\ saves["t2"] = <<CtxTuple>>
    /\ Len(store) = 2

\* run() or the agent that was run is over: returned, or left by an exception.
RunEnded == ppc \in {"crashed", "finished"}

\* The record of the run's task id.
RunRecord == FetchOne(store, TaskIdOf(ctx))

(***************************************************************************)
(* C16.  A pipeline run executes the three agents once each, in the order  *)
(* Data-Fetch, Data-Process, Report, without branching or retry.  Stated   *)
(* as written; run() raises TypeError while it builds the agents.          *)
(***************************************************************************)
C16_Original ==
    RunEnded =>
        /\ ppc = "finished"
        /\ pexc = ""
        /\ ran = <<"DataFetchAgent", "DataProcessAgent", "ReportAgent">>

(***************************************************************************)
(* C17.  In a pipeline run started with empty messages, ctx.messages never *)
(* gets shorter, and ctx.final_report is null until the Report Agent's     *)
(* turn and text after it.  Stated as written; the run ends with a null    *)
(* final_report (C16).                                                     *)
(***************************************************************************)
C17_Original ==
    ctx # PyNone =>
        /\ "ReportAgent" \notin {ran[k] : k \in 1..Len(ran)}
              => Get(ctx, "final_report") = PyNone
        /\ RunEnded => Get(ctx, "final_report").ty = "str"

C19_ReportCalls == SelectSeq(pcalls, LAMBDA c : c.agent = "ReportAgent")

C19_Original ==
    (ran # <<>> /\ ran[Len(ran)] = "ReportAgent") =>
        /\ pexc = ""
        /\ Len(C19_ReportCalls) = 1
        /\ ~C19_ReportCalls[1].tools
        /\ Get(ctx, "final_report").ty = "str"

(***************************************************************************)
(* C21.  At the first model call of a turn the message list is the system  *)
(* message, then the persisted history as it was before the turn, then the *)
(* new user message, and the user message is already persisted.  Stated as *)
(* written, the history in the order it was persisted; load_context may    *)
(* return records of one second in another order (C12), so it does not     *)
(* hold.                                                                   *)
(***************************************************************************)
\* The records persisted before the turn, in the order they were inserted.
C21_HistoryBefore == [i \in 1..base |-> Msg(db[i].role, db[i].content)]

C21_Original ==
    (pc = "loop" /\ modelCalls = 0) =>
        /\ Len(db) = base + 1
        /\ db[base + 1].role = "user"
        /\ messages = <<Msg("system", "You are a financial data analysis agent.")>>
                      \o C21_HistoryBefore
                      \o <<Msg("user", db[base + 1].content)>>

(***************************************************************************)
(* C22.  Every tool invocation held in the message list and in the         *)
(* persisted assistant record is the normalized plain mapping: no tool-call*)
(* object of the runtime is in the list sent to the next model call.       *)
(* Stated as written it fails: line 272 appends the response as the        *)
(* runtime returned it, and normalization builds a list of its own.        *)
(***************************************************************************)
\* No object of the runtime inside v.
RECURSIVE C22_Plain(_)
C22_Plain(v) ==
    CASE v.ty = "dict" -> \A i \in 1..Len(v.items) : C22_Plain(v.items[i][2])
      [] v.ty = "list" -> \A i \in 1..Len(v.elems) : C22_Plain(v.elems[i])
      [] v.ty = "object" -> FALSE
      [] OTHER -> TRUE

\* The plain mapping of an entry: its fields under their names.
RECURSIVE C22_AsMapping(_)
C22_AsMapping(v) ==
    IF v.ty = "object"
    THEN [ty |-> "dict",
          items |-> [i \in 1..Len(v.attrs) |-> <<v.attrs[i][1], C22_AsMapping(v.attrs[i][2])>>]]
    ELSE v

\* The assistant record of the tool calls of one response.
C22_Record(m) ==
    json_dumps(PyList([k \in 1..Len(Entries(m)) |-> C22_AsMapping(Entries(m)[k])]))

\* The entries are mappings or pydantic objects, which the loop converts.
C22_Convertible(m) ==
    \A k \in 1..Len(Entries(m)) :
        \/ Entries(m)[k].ty = "dict"
        \/ Entries(m)[k].ty = "object" /\ Entries(m)[k].cls = "ToolCall"

C22_Original ==
    /\ \A i \in ResponseIdx :
          IsToolResponse(messages[i]) =>
              \A k \in 1..Len(Entries(messages[i])) : C22_Plain(Entries(messages[i])[k])
    /\ \A i \in ResponseIdx :
          (IsToolResponse(messages[i]) /\ i - 1 <= Len(db)) =>
              db[i - 1].content = C22_Record(messages[i])

\* C22 as it holds: the persisted assistant record and the entries the
\* executor loop reads are plain mappings; the message list keeps the
\* response as the runtime returned it.
C22_Amended ==
    /\ \A k \in 1..Len(pending) : pending[k].ty = "dict" /\ C22_Plain(pending[k])
    /\ \A i \in ResponseIdx :
          (IsToolResponse(messages[i]) /\ C22_Convertible(messages[i])) =>
              /\ i - 1 <= Len(db)
              /\ db[i - 1].role = "assistant"
              /\ db[i - 1].content = C22_Record(messages[i])

\* A response holding a pydantic tool call is in the list the next model
\* call gets, and its record holds the plain mapping.
C22_Witness ==
    /\ pc = "loop"
    /\ modelCalls >= 1
    /\ \E i \in ResponseIdx :
          /\ IsToolResponse(messages[i])
          /\ \E k \in 1..Len(Entries(messages[i])) : Entries(messages[i])[k].ty = "object"
          /\ db[i - 1].content
               = "[{\"function\": {\"name\": \"search_stock\", \"arguments\": {}}}]"

(***************************************************************************)
(* C23.  A run of the Data-Fetch or Data-Process agent makes exactly one   *)
(* model call, on its own system prompt followed by the context's          *)
(* messages, then appends the model's message and one tool message per     *)
(* invocation to ctx.messages.  Stated as written; the run methods raise   *)
(* at their first statement (C16), so no call is made and nothing is       *)
(* appended.                                                               *)
(***************************************************************************)
\* The calls of ollama.chat made by the agents of class cls.
C23_CallsOf(cls) == SelectSeq(pcalls, LAMBDA call : call.agent = cls)

C23_Original ==
    \A k \in 1..Len(ran) :
        ran[k] \in {"DataFetchAgent", "DataProcessAgent"} =>
            /\ Len(C23_CallsOf(ran[k])) = 1
            /\ Head(C23_CallsOf(ran[k])).messages[1].items[1] = <<"role", PyStr("system")>>
            /\ Get(ctx, "messages").elems # <<>>
            /\ Get(Get(ctx, "messages").elems[1], "role") = PyStr("assistant")

(***************************************************************************)
(* C26.  In a pipeline run every element of ctx.messages is a model        *)
(* response or a tool-role message: no system prompt and no user-role      *)
(* message is stored in the shared context, and a model call carries one   *)
(* system message, the prompt of the agent that makes the call.            *)
(***************************************************************************)
\* Positions of the system messages in the message list of a model call.
C26_SystemIdx(call) ==
    {i \in 1..Len(call.messages) : Get(call.messages[i], "role") = PyStr("system")}

C24_StoreUsed == loaded.op \in {"save", "load"}

C24_Original ==
    /\ handles = 0
    /\ C24_StoreUsed => conn = "closed"

\* C24 as it holds: the functions of the history leave no handle open; the
\* store's one handle is open from its construction on, across its
\* operations.
C24_Amended ==
    /\ handles = 0
    /\ C24_StoreUsed => conn = "open"

\* A turn has loaded and saved the history, and the store has saved and
\* loaded a context.
C24_Witness ==
    /\ pc = "done"
    /\ Len(db) = 2
    /\ Len(saves["t1"]) = 2
    /\ loaded.op = "load"
    /\ ~loaded.raised

(***************************************************************************)
(* C25.  At every model call of the single-agent loop the persisted        *)
(* records correspond one-to-one, in order and by role, to the message     *)
(* list without its leading system message; the system message is once in  *)
(* the list, at its head, and is never persisted.  Stated as written; the  *)
(* history part of the list comes from load_context, whose order is not    *)
(* the order of the records (C12), so it does not hold.                    *)
(***************************************************************************)
\* ollama.chat is about to be called on the message list.
C25_AtModelCall == pc = "loop" /\ iteration < 5

C25_Original ==
    C25_AtModelCall =>
        /\ Len(messages) = Len(db) + 1
        /\ \A i \in 1..Len(db) : Get(messages[i + 1], "role") = PyStr(db[i].role)
        /\ {i \in 1..Len(messages) : Get(messages[i], "role") = PyStr("system")} = {1}
        /\ \A i \in 1..Len(db) : db[i].role # "system"

(***************************************************************************)
(* C27.  ContextStore.load of a task id under which nothing was ever saved *)
(* fails with an error instead of returning a value, and leaves every      *)
(* stored record as it was.                                                *)
(***************************************************************************)
C27_LoadOfUnsavedFails ==
    [][(loaded'.op = "load" /\ saves[loaded'.task_id] = <<>>)
          => /\ loaded'.raised
             /\ loaded'.exc = "TypeError"
             /\ loaded'.value = [ty |-> "unset"]
             /\ store' = store
             /\ saves' = saves]_vars

\* The load of an unsaved id has failed while the table holds the record of
\* another id.
C27_Witness ==
    /\ loaded.op = "load"
    /\ loaded.raised
    /\ saves[loaded.task_id] = <<>>
    /\ store # <<>>

====
